---- MODULE Spec2Model ----
(***************************************************************************)
(* warp-fwd-dns: a Worker that receives a Logpush batch of device records  *)
(* and reconciles the A records of a DNS zone with the devices' addresses. *)
(* The model follows src/worker.js: the fetch handler, getDeviceDetails,   *)
(* manageDNSRecord and the five DNS store calls.  Every await on an        *)
(* external call is one step, so that a run can be observed (and can       *)
(* fail) between two calls.                                                *)
(***************************************************************************)
EXTENDS Integers, Sequences, FiniteSets, TLC

(***************************************************************************)
(* Bounds of the model.                                                    *)
(***************************************************************************)
\* lines in one request body
MaxBatch == 2
\* record ids the DNS store can hand out
MaxRecords == 4

(***************************************************************************)
(* Values.                                                                 *)
(***************************************************************************)
DOMAIN_SUFFIX == "example.com"
DeviceIDs == {"d1", "d2"}
DeviceNames == {"a", "b"}
Addrs == {"10.0.0.1", "10.0.0.2"}
Methods == {"POST", "GET"}
\* a field that is absent from a JSON object, or empty: falsy in JavaScript
Missing == ""
\* the optional field of an action, when the object does not have it
Absent == "<absent>"
Ids == 1..MaxRecords
\* how an external call can end: a success response, a response with
\* success = false, or a network error (fetch or response.json() rejects)
Outcomes == {"ok", "nonsuccess", "throw"}

Truthy(v) == v # Missing

SeqsUpTo(S, n) == UNION {[1..k -> S] : k \in 0..n}

\* `${device.name}.${env.DOMAIN_SUFFIX}`
dnsName(name) == name \o "." \o DOMAIN_SUFFIX

Hostnames == {dnsName(n) : n \in DeviceNames}

(***************************************************************************)
(* The request body: a gzip stream of newline-delimited JSON.  A line is   *)
(* either not JSON at all or an object whose DeviceID and DeviceName may   *)
(* be missing.                                                             *)
(***************************************************************************)
Entry(id, name) == [json |-> TRUE, DeviceID |-> id, DeviceName |-> name]
MalformedLine == [json |-> FALSE, DeviceID |-> Missing, DeviceName |-> Missing]
Lines ==
    {Entry(id, name) : id \in DeviceIDs, name \in DeviceNames}
        \cup {Entry(Missing, "a"), Entry("d1", Missing), MalformedLine}
CorruptBody == [gzip |-> FALSE, lines |-> <<>>]
Bodies == {[gzip |-> TRUE, lines |-> l] : l \in SeqsUpTo(Lines, MaxBatch)}
              \cup {CorruptBody}

\* the requests: a POST with any body, or another method (whose body is
\* never read)
Requests ==
    {[method |-> "POST", body |-> b] : b \in Bodies}
        \cup {[method |-> m, body |-> CorruptBody] : m \in Methods \ {"POST"}}

\* ParseFails with the bug of parsing the first line only
ParseFails_FirstLineOnly(body) ==
    body.lines = <<>> \/ ~body.lines[1].json

\* decompressedText.trim().split(/\r?\n/).map(line => JSON.parse(line)):
\* an empty text still splits into one (empty) line, which is not JSON
ParseFails(body) ==
    \/ body.lines = <<>>
    \/ \E k \in 1..Len(body.lines) : ~body.lines[k].json

\* MapSet with the bug of keeping the first value of a key already present
MapSet_KeepsFirst(m, id, name) ==
    IF \E k \in 1..Len(m) : m[k].DeviceID = id
    THEN m
    ELSE Append(m, [DeviceID |-> id, DeviceName |-> name])

\* Map.prototype.set: a key already present keeps its place and takes the
\* new value; a new key goes to the end
MapSet(m, id, name) ==
    IF \E k \in 1..Len(m) : m[k].DeviceID = id
    THEN [k \in 1..Len(m) |->
            IF m[k].DeviceID = id
            THEN [DeviceID |-> id, DeviceName |-> name]
            ELSE m[k]]
    ELSE Append(m, [DeviceID |-> id, DeviceName |-> name])

\* logEntries.forEach(entry => { if (DeviceID && DeviceName) set(...) })
RECURSIVE UniqueDevices(_)
UniqueDevices(entries) ==
    IF entries = <<>> THEN <<>>
    ELSE LET n == Len(entries)
             rest == UniqueDevices(SubSeq(entries, 1, n - 1))
             e == entries[n]
         IN  IF Truthy(e.DeviceID) /\ Truthy(e.DeviceName)
             THEN MapSet(rest, e.DeviceID, e.DeviceName)
             ELSE rest

(***************************************************************************)
(* The DNS store: the A records of the zone, each with its id.  A query    *)
(* answers with the list of matching records, in an order the store        *)
(* chooses; the code takes result[0].  The store refuses a record that is  *)
(* identical (name and content) to one it holds, and has MaxRecords ids.   *)
(***************************************************************************)
NoRecord == [id |-> 0, name |-> Missing, content |-> Missing]
Rec(id, name, content) == [id |-> id, name |-> name, content |-> content]

\* dns_records?type=A&name=${name}
ByName(z, name) == {r \in z : r.name = name}
\* dns_records?type=A&content=${ipv4}
ByContent(z, content) == {r \in z : r.content = content}

\* data.success && data.result.length > 0 ? data.result[0] : null
FirstOf(o, matches) ==
    IF o = "ok" /\ matches # {} THEN matches ELSE {NoRecord}

Holds(z, name, content) == \E r \in z : r.name = name /\ r.content = content

\* POST dns_records
StoreCreate(z, id, name, content) == z \cup {Rec(id, name, content)}
\* PUT dns_records/${recordId}
StoreUpdate(z, id, name, content) ==
    {IF r.id = id THEN Rec(id, name, content) ELSE r : r \in z}
\* DELETE dns_records/${recordId}
StoreDelete(z, id) == {r \in z : r.id # id}

\* the zones a behaviour may start from: any set of distinct (name, content)
\* pairs, numbered from 1
RECURSIVE Number(_, _)
Number(pairs, k) ==
    IF pairs = {} THEN {}
    ELSE LET p == CHOOSE q \in pairs : TRUE
         IN  {Rec(k, p[1], p[2])} \cup Number(pairs \ {p}, k + 1)
InitZones == {Number(ps, 1) : ps \in SUBSET (Hostnames \X Addrs)}

(***************************************************************************)
(* State.                                                                  *)
(*   zone     the A records of the zone (the DNS store)                    *)
(*   dir      the device directory: each device's IPv4 address, if any     *)
(*   active   the invocations of the handler that exist                    *)
(*   inv      each invocation's local state, see Idle                      *)
(*   lastRun  history: the last run of manageDNSRecord that returned in    *)
(*            the batch being processed                                    *)
(***************************************************************************)
VARIABLES zone, dir, active, inv, lastRun

vars == <<zone, dir, active, inv, lastRun>>

NoDevice == [name |-> Missing, ipv4 |-> Missing]
NoAction == [action |-> Missing, name |-> Missing, ipv4 |-> Missing,
             deleted_duplicate |-> Absent]
NoRequest == [method |-> Missing, body |-> CorruptBody]
NoResponse == [status |-> 0, type |-> Missing, text |-> Missing, json |-> <<>>]
NoRun == [name |-> Missing, ipv4 |-> Missing, action |-> Missing,
          n0 |-> 0, ok |-> FALSE]

\* an invocation's locals (request .. response) and its history of the
\* current batch (lookup: how the directory call for the current device
\* ended; zone0, calls: the zone at the start of the current run of
\* manageDNSRecord and the store calls the run issued; skipped, reconciled:
\* the devices the loop has skipped and those whose action it recorded)
Idle == [pc |-> "idle", request |-> NoRequest, uniqueDevices |-> <<>>,
         i |-> 0, device |-> NoDevice, existingRecord |-> NoRecord,
         duplicateRecord |-> NoRecord, action |-> NoAction, actions |-> <<>>,
         response |-> NoResponse, lookup |-> Missing, zone0 |-> {},
         calls |-> <<>>, skipped |-> {}, reconciled |-> <<>>]

Call(op, id, name, content, o) ==
    [op |-> op, id |-> id, name |-> name, content |-> content, outcome |-> o]

Mutations == {"createDNSRecord", "updateDNSRecord", "deleteDNSRecord"}

\* new Response(JSON.stringify(actions, null, 2), {status: 200})
JsonResponse(actions) ==
    [status |-> 200, type |-> "application/json", text |-> Missing,
     json |-> actions]
TextResponse(status, text) ==
    [status |-> status, type |-> "text/plain", text |-> text, json |-> <<>>]

\* the device the loop is at
Cur(s) == s.uniqueDevices[s.i]

\* ids some invocation still holds in a local
HeldIds == {inv[w].existingRecord.id : w \in active}
               \cup {inv[w].duplicateRecord.id : w \in active}
FreeIds == Ids \ ({r.id : r \in zone} \cup HeldIds)
NewId == CHOOSE id \in FreeIds : \A other \in FreeIds : id <= other

\* when the store accepts a mutation
CanCreate(name, content) == ~Holds(zone, name, content) /\ FreeIds # {}
CanUpdate(id, name, content) ==
    /\ \E r \in zone : r.id = id
    /\ ~\E r \in zone : r.id # id /\ r.name = name /\ r.content = content
CanDelete(id) == \E r \in zone : r.id = id

Init ==
    /\ zone \in InitZones
    /\ dir \in [DeviceIDs -> Addrs \cup {Missing}]
    /\ active = {1}
    /\ inv = [w \in active |-> Idle]
    /\ lastRun = NoRun

\* Caught with the bug of answering 200 with the actions gathered so far
Caught_AnswersPartial(s) ==
    [s EXCEPT !.pc = "responded", !.response = JsonResponse(s.actions)]

\* catch (error) { return new Response("Error processing data", 500) }
Caught(s) ==
    [s EXCEPT !.pc = "responded",
              !.response = TextResponse(500, "Error processing data")]

(***************************************************************************)
(* fetch, lines 2-26: the method check, decompression, parsing and the     *)
(* deduplication by DeviceID.                                              *)
(***************************************************************************)
Parsed(s, body) ==
    IF ~body.gzip \/ ParseFails(body)
    THEN Caught(s)
    ELSE [s EXCEPT !.pc = "loop",
                   !.uniqueDevices = UniqueDevices(body.lines)]

Fetch(w, request) ==
    /\ inv[w].pc = "idle"
    /\ LET s == [Idle EXCEPT !.request = request]
           method == request.method
           body == request.body
       IN  inv' = [inv EXCEPT ![w] =
                IF method # "POST"
                THEN [s EXCEPT !.pc = "responded",
                               !.response = TextResponse(405,
                                            "Only POST requests are allowed")]
                ELSE Parsed(s, body)]
    /\ UNCHANGED <<zone, dir, active, lastRun>>

(***************************************************************************)
(* fetch, lines 27 and 46-51: the loop takes the next device of the map,   *)
(* or answers 200 with the actions when there is none left.  The request   *)
(* body is not used after the parse, and is dropped here.                  *)
(***************************************************************************)
Loop(w) ==
    /\ inv[w].pc = "loop"
    /\ LET s == [inv[w] EXCEPT !.request = NoRequest, !.lookup = Missing]
       IN  inv' = [inv EXCEPT ![w] =
                IF s.i < Len(s.uniqueDevices)
                THEN [s EXCEPT !.pc = "getDeviceDetails", !.i = s.i + 1]
                ELSE [s EXCEPT !.pc = "responded",
                               !.response = JsonResponse(s.actions)]]
    /\ UNCHANGED <<zone, dir, active, lastRun>>

\* the response has gone to the caller: the invocation and its locals end
Respond(w) ==
    /\ inv[w].pc = "responded"
    /\ inv' = [inv EXCEPT ![w] = Idle]
    /\ lastRun' = NoRun
    /\ UNCHANGED <<zone, dir, active>>

(***************************************************************************)
(* getDeviceDetails, lines 60-82, and the skip of lines 28-37.             *)
(***************************************************************************)
\* data.result, or null when the call raised or reported no success
Details(o, answer) ==
    IF o = "ok" THEN [found |-> TRUE, ipv4 |-> answer]
    ELSE [found |-> FALSE, ipv4 |-> Missing]

\* Unresolved with the bug of not looking at the address
Unresolved_IgnoresIpv4(details) == ~details.found

\* !deviceDetails || !deviceDetails.metadata || !deviceDetails.metadata.ipv4
Unresolved(details) == ~details.found \/ ~Truthy(details.ipv4)

GetDeviceDetails(w, o) ==
    /\ inv[w].pc = "getDeviceDetails"
    /\ LET s == [inv[w] EXCEPT !.lookup = o]
           deviceDetails == Details(o, dir[Cur(s).DeviceID])
       IN  inv' = [inv EXCEPT ![w] =
                IF Unresolved(deviceDetails)
                THEN [s EXCEPT !.pc = "loop",
                               !.skipped = @ \cup {Cur(s).DeviceID}]
                ELSE [s EXCEPT !.pc = "getDNSRecord",
                               !.device = [name |-> Cur(s).DeviceName,
                                           ipv4 |-> deviceDetails.ipv4],
                               !.zone0 = zone,
                               !.calls = <<>>]]
    /\ UNCHANGED <<zone, dir, active, lastRun>>

(***************************************************************************)
(* manageDNSRecord, lines 85-110, one step per store call.                 *)
(***************************************************************************)
\* Decide with the bug of never updating a record that exists
Decide_NeverUpdates(existingRecord, ipv4) ==
    IF existingRecord = NoRecord THEN "createDNSRecord" ELSE "no-change"

\* Decide with the bug of taking the update path for an unchanged address
Decide_UpdatesUnchanged(existingRecord, ipv4) ==
    IF existingRecord = NoRecord THEN "createDNSRecord"
    ELSE "findDuplicateDNSRecord"

\* the branch taken on the by-name query's answer: lines 89, 92 and 109
Decide(existingRecord, ipv4) ==
    IF existingRecord = NoRecord THEN "createDNSRecord"
    ELSE IF existingRecord.content # ipv4 THEN "findDuplicateDNSRecord"
    ELSE "no-change"

\* AfterDuplicateCheck with the bug of never deleting the duplicate
AfterDuplicateCheck_NeverDeletes(duplicateRecord) == "updateDNSRecord"

\* line 95: if (duplicateRecord)
AfterDuplicateCheck(duplicateRecord) ==
    IF duplicateRecord # NoRecord THEN "deleteDNSRecord" ELSE "updateDNSRecord"

\* UpdateTarget with the bug of updating the duplicate that was deleted
UpdateTarget_Duplicate(existingRecord, duplicateRecord) ==
    IF duplicateRecord # NoRecord THEN duplicateRecord.id
    ELSE existingRecord.id

\* the id passed to updateDNSRecord, lines 97 and 105
UpdateTarget(existingRecord, duplicateRecord) == existingRecord.id

\* Created with the bug of its two fields swapped
Created_Swapped(name, ipv4) ==
    [action |-> "created", name |-> ipv4, ipv4 |-> name,
     deleted_duplicate |-> Absent]

\* the actions returned: lines 91, 98-103, 106 and 109
Created(name, ipv4) ==
    [action |-> "created", name |-> name, ipv4 |-> ipv4,
     deleted_duplicate |-> Absent]
Updated(name, ipv4, duplicateRecord) ==
    [action |-> "updated", name |-> name, ipv4 |-> ipv4,
     deleted_duplicate |->
        IF duplicateRecord # NoRecord THEN duplicateRecord.name ELSE Absent]
NoChange(name, ipv4) ==
    [action |-> "no-change", name |-> name, ipv4 |-> ipv4,
     deleted_duplicate |-> Absent]

\* a store call of invocation w ended with outcome o: a network error goes
\* to the handler's catch, anything else lets the run go on as `next`
StoreCall(w, call, next) ==
    /\ inv' = [inv EXCEPT ![w] =
            IF call.outcome = "throw"
            THEN Caught([inv[w] EXCEPT !.calls = Append(@, call)])
            ELSE [next EXCEPT !.calls = Append(inv[w].calls, call)]]
    /\ UNCHANGED lastRun
    /\ UNCHANGED <<dir, active>>

\* lines 86-87 and 113-124, then the branch
GetDNSRecord(w, o, r) ==
    /\ inv[w].pc = "getDNSRecord"
    /\ LET s == inv[w]
           name == dnsName(s.device.name)
           branch == Decide(r, s.device.ipv4)
       IN  /\ r \in FirstOf(o, ByName(zone, name))
           /\ StoreCall(w, Call("getDNSRecord", 0, name, Missing, o),
                  IF branch = "no-change"
                  THEN [s EXCEPT !.pc = "pushAction",
                                 !.existingRecord = r,
                                 !.action = NoChange(name, s.device.ipv4)]
                  ELSE [s EXCEPT !.pc = branch, !.existingRecord = r])
    /\ UNCHANGED zone

\* lines 90-91 and 141-158
CreateDNSRecord(w, o) ==
    /\ inv[w].pc = "createDNSRecord"
    /\ LET s == inv[w]
           name == dnsName(s.device.name)
       IN  /\ o = "ok" => CanCreate(name, s.device.ipv4)
           /\ zone' = IF o = "ok"
                      THEN StoreCreate(zone, NewId, name, s.device.ipv4)
                      ELSE zone
           /\ StoreCall(w, Call("createDNSRecord", 0, name, s.device.ipv4, o),
                  [s EXCEPT !.pc = "pushAction",
                            !.action = Created(name, s.device.ipv4)])

\* lines 93, 95 and 127-138
FindDuplicateDNSRecord(w, o, r) ==
    /\ inv[w].pc = "findDuplicateDNSRecord"
    /\ LET s == inv[w]
       IN  /\ r \in FirstOf(o, ByContent(zone, s.device.ipv4))
           /\ StoreCall(w, Call("findDuplicateDNSRecord", 0, Missing,
                                s.device.ipv4, o),
                  [s EXCEPT !.pc = AfterDuplicateCheck(r),
                            !.duplicateRecord = r])
    /\ UNCHANGED zone

\* lines 96 and 181-191
DeleteDNSRecord(w, o) ==
    /\ inv[w].pc = "deleteDNSRecord"
    /\ LET s == inv[w]
           id == s.duplicateRecord.id
       IN  /\ o = "ok" => CanDelete(id)
           /\ zone' = IF o = "ok" THEN StoreDelete(zone, id) ELSE zone
           /\ StoreCall(w, Call("deleteDNSRecord", id, Missing, Missing, o),
                  [s EXCEPT !.pc = "updateDNSRecord"])

\* UpdateDNSRecord with a rollback: an update that fails puts the deleted
\* duplicate back
UpdateDNSRecord_Restores(w, o) ==
    /\ inv[w].pc = "updateDNSRecord"
    /\ LET s == inv[w]
           id == s.existingRecord.id
           name == dnsName(s.device.name)
       IN  /\ o = "ok" => CanUpdate(id, name, s.device.ipv4)
           /\ zone' = IF o = "ok"
                      THEN StoreUpdate(zone, id, name, s.device.ipv4)
                      ELSE zone \cup ({s.duplicateRecord} \ {NoRecord})
           /\ StoreCall(w, Call("updateDNSRecord", id, name, s.device.ipv4, o),
                  [s EXCEPT !.pc = "pushAction",
                            !.action = Updated(name, s.device.ipv4,
                                               s.duplicateRecord)])

\* lines 97-106 and 161-178
UpdateDNSRecord(w, o) ==
    /\ inv[w].pc = "updateDNSRecord"
    /\ LET s == inv[w]
           id == UpdateTarget(s.existingRecord, s.duplicateRecord)
           name == dnsName(s.device.name)
       IN  /\ o = "ok" => CanUpdate(id, name, s.device.ipv4)
           /\ zone' = IF o = "ok"
                      THEN StoreUpdate(zone, id, name, s.device.ipv4)
                      ELSE zone
           /\ StoreCall(w, Call("updateDNSRecord", id, name, s.device.ipv4, o),
                  [s EXCEPT !.pc = "pushAction",
                            !.action = Updated(name, s.device.ipv4,
                                               s.duplicateRecord)])

\* what lastRun keeps of a run that returned: its device, its action, how
\* many records the hostname had when it started, whether every call succeeded
RunOf(s) ==
    [name |-> s.device.name, ipv4 |-> s.device.ipv4,
     action |-> s.action.action,
     n0 |-> Cardinality(ByName(s.zone0, dnsName(s.device.name))),
     ok |-> \A k \in 1..Len(s.calls) : s.calls[k].outcome = "ok"]

\* fetch, lines 40-43: manageDNSRecord has returned, the action is recorded
PushAction(w) ==
    /\ inv[w].pc = "pushAction"
    /\ LET s == inv[w]
       IN  /\ inv' = [inv EXCEPT ![w] =
                [s EXCEPT !.pc = "loop",
                          !.actions = Append(@, s.action),
                          !.reconciled = Append(@, Cur(s).DeviceID),
                          !.device = NoDevice,
                          !.existingRecord = NoRecord,
                          !.duplicateRecord = NoRecord,
                          !.action = NoAction,
                          !.zone0 = {},
                          !.calls = <<>>]]
           /\ lastRun' = RunOf(s)
    /\ UNCHANGED <<zone, dir, active>>

Next ==
    \/ \E w \in active, request \in Requests : Fetch(w, request)
    \/ \E w \in active : Loop(w)
    \/ \E w \in active : Respond(w)
    \/ \E w \in active, o \in Outcomes : GetDeviceDetails(w, o)
    \/ \E w \in active, o \in Outcomes, r \in zone \cup {NoRecord} :
            GetDNSRecord(w, o, r)
    \/ \E w \in active, o \in Outcomes : CreateDNSRecord(w, o)
    \/ \E w \in active, o \in Outcomes, r \in zone \cup {NoRecord} :
            FindDuplicateDNSRecord(w, o, r)
    \/ \E w \in active, o \in Outcomes : DeleteDNSRecord(w, o)
    \/ \E w \in active, o \in Outcomes : UpdateDNSRecord(w, o)
    \/ \E w \in active : PushAction(w)

Spec == Init /\ [][Next]_vars

(***************************************************************************)
(* manageDNSRecord and the loop of fetch as functions of the zone, for the *)
(* runs whose store calls all succeed: the outcomes (zone left, action     *)
(* returned) of one run, one for each answer the store may give to the     *)
(* two queries, and the outcomes of the runs of a whole map in its order.  *)
(***************************************************************************)
\* the id the store gives to a new record of zone z
FreshId(z) ==
    CHOOSE id \in 1..(Cardinality(z) + 1) :
        /\ id \notin {r.id : r \in z}
        /\ \A j \in 1..(id - 1) : j \in {r.id : r \in z}

\* the store holding z accepts the update (see CanUpdate)
Accepts(z, id, name, content) ==
    /\ \E r \in z : r.id = id
    /\ ~\E r \in z : r.id # id /\ r.name = name /\ r.content = content

\* lines 85-110
manageDNSRecord(z, device) ==
    LET name == dnsName(device.name)
        ipv4 == device.ipv4
        \* lines 92-106, existingRecord and duplicateRecord given
        update(e, d) ==
            LET z1 == IF AfterDuplicateCheck(d) = "deleteDNSRecord"
                      THEN StoreDelete(z, d.id) ELSE z
                id == UpdateTarget(e, d)
            IN  IF Accepts(z1, id, name, ipv4)
                THEN {[zone |-> StoreUpdate(z1, id, name, ipv4),
                       action |-> Updated(name, ipv4, d)]}
                ELSE {}
        branch(e) ==
            IF Decide(e, ipv4) = "createDNSRecord"
            THEN {[zone |-> StoreCreate(z, FreshId(z), name, ipv4),
                   action |-> Created(name, ipv4)]}
            ELSE IF Decide(e, ipv4) = "no-change"
            THEN {[zone |-> z, action |-> NoChange(name, ipv4)]}
            ELSE UNION {update(e, d) :
                            d \in FirstOf("ok", ByContent(z, ipv4))}
    IN  UNION {branch(e) : e \in FirstOf("ok", ByName(z, name))}

\* lines 27-44: the devices of map m taken in order from zone z, with the
\* directory answering; a device without an address is skipped
RECURSIVE Reconcile(_, _)
Reconcile(z, m) ==
    IF m = <<>> THEN {[zone |-> z, actions |-> <<>>]}
    ELSE LET n == Len(m)
             last == m[n]
             details == Details("ok", dir[last.DeviceID])
         IN  UNION {
                IF Unresolved(details) THEN {before}
                ELSE {[zone |-> run.zone,
                       actions |-> Append(before.actions, run.action)] :
                        run \in manageDNSRecord(before.zone,
                                    [name |-> last.DeviceName,
                                     ipv4 |-> details.ipv4])}
                : before \in Reconcile(z, SubSeq(m, 1, n - 1))}

(***************************************************************************)
(* Vocabulary of the properties.                                           *)
(***************************************************************************)
\* manageDNSRecord has returned its action to the loop
Returned(s) == s.pc = "pushAction"
\* every store call of the current run succeeded
AllOk(s) == \A k \in 1..Len(s.calls) : s.calls[k].outcome = "ok"
\* the operations of the store calls the current run issued, in order
Ops(s) == [k \in 1..Len(s.calls) |-> s.calls[k].op]
\* the hostname of the device being reconciled
Host(s) == dnsName(s.device.name)
\* every address is held by at most one A record
OneRecordPerAddress(z) ==
    \A r1, r2 \in z : r1.content = r2.content => r1 = r2
\* every hostname has at most one A record
OneRecordPerHostname(z) ==
    \A r1, r2 \in z : r1.name = r2.name => r1 = r2

(***************************************************************************)
(* C1. Address uniqueness: a run of manageDNSRecord that starts from a     *)
(* zone in which every address is held by at most one record, and whose    *)
(* store calls all succeed, leaves no address held under two different     *)
(* hostnames; in particular no other hostname still holds the device's     *)
(* address.  (The claim for a sequence of runs follows from, and needs,    *)
(* the claim for each run.)                                                *)
(***************************************************************************)
C1_AddressUniqueness ==
    \A w \in active :
        LET s == inv[w]
        IN  (Returned(s) /\ AllOk(s) /\ OneRecordPerAddress(s.zone0)) =>
                /\ \A r1, r2 \in zone :
                        r1.content = r2.content => r1.name = r2.name
                /\ \A r \in zone :
                        r.content = s.device.ipv4 => r.name = Host(s)

(***************************************************************************)
(* C2. Convergence of the target hostname: a run that starts from a zone   *)
(* with at most one A record per hostname, and whose store calls all       *)
(* succeed, leaves exactly one A record for the device's hostname, and     *)
(* that record holds the device's address.                                 *)
(***************************************************************************)
C2_Convergence ==
    \A w \in active :
        LET s == inv[w]
        IN  (Returned(s) /\ AllOk(s) /\ OneRecordPerHostname(s.zone0)) =>
                /\ Cardinality(ByName(zone, Host(s))) = 1
                /\ \A r \in ByName(zone, Host(s)) : r.content = s.device.ipv4

\* a run of the update path that deleted a duplicate has returned
C2_Witness ==
    \E w \in active :
        LET s == inv[w]
        IN  /\ Returned(s) /\ AllOk(s) /\ OneRecordPerHostname(s.zone0)
            /\ Ops(s) = <<"getDNSRecord", "findDuplicateDNSRecord",
                          "deleteDNSRecord", "updateDNSRecord">>

(***************************************************************************)
(* C3. Idempotence of a single device: when two runs in a row reconcile    *)
(* the same resolved device and every store call of both succeeds, the     *)
(* second run returns no-change and issues no create, update or delete;    *)
(* when the hostname had no record before the first run, the first run     *)
(* returned created and the zone then holds exactly one record for the     *)
(* hostname.                                                               *)
(***************************************************************************)
\* the run that has just returned repeats the run before it
Repeats(s) ==
    /\ Returned(s) /\ AllOk(s)
    /\ lastRun.ok
    /\ lastRun.name = s.device.name
    /\ lastRun.ipv4 = s.device.ipv4

SecondRunIsNoOp(s) ==
    /\ s.action = NoChange(Host(s), s.device.ipv4)
    /\ \A k \in 1..Len(s.calls) : s.calls[k].op \notin Mutations
    /\ zone = s.zone0
    /\ lastRun.n0 = 0 =>
            /\ lastRun.action = "created"
            /\ Cardinality(ByName(zone, Host(s))) = 1

\* C3 as stated, for any zone: the second of two successful runs in a row
\* on the same device changes nothing and returns no-change
C3_Idempotence ==
    \A w \in active : Repeats(inv[w]) => SecondRunIsNoOp(inv[w])

\* C3 for a hostname that had at most one A record before the first of the
\* two runs: the second run changes nothing and returns no-change
C3_IdempotenceOneRecord ==
    \A w \in active :
        (Repeats(inv[w]) /\ lastRun.n0 <= 1) => SecondRunIsNoOp(inv[w])

\* the second of two runs on a device whose hostname had no record has
\* returned
C3_Witness ==
    \E w \in active :
        /\ Repeats(inv[w])
        /\ lastRun.n0 = 0
        /\ lastRun.action = "created"

(***************************************************************************)
(* C4. Per-device failure isolation: when a store call of one device's     *)
(* run ends in a network error, only that device is skipped: the handler   *)
(* goes on through every later device of the batch and answers 200 with    *)
(* the actions of the other devices, none of them for the failed device.   *)
(***************************************************************************)
\* the current run ended in a network error
RunThrew(s) ==
    s.calls # <<>> /\ s.calls[Len(s.calls)].outcome = "throw"

\* C4: a batch in which a run ended in a network error is still answered
\* 200, after every device was taken, with no action for the failed device
C4_FailureIsolation ==
    \A w \in active :
        LET s == inv[w]
        IN  (s.pc = "responded" /\ RunThrew(s)) =>
                /\ s.i = Len(s.uniqueDevices)
                /\ s.response = JsonResponse(s.actions)
                /\ \A k \in 1..Len(s.reconciled) :
                        s.reconciled[k] # Cur(s).DeviceID

(***************************************************************************)
(* C5. Completed work is reported: the response of an invocation carries   *)
(* the action of every device whose reconciliation completed during the    *)
(* batch, whatever happened afterwards.                                    *)
(***************************************************************************)
C5_CompletedWorkReported ==
    \A w \in active :
        LET s == inv[w]
        IN  s.pc = "responded" =>
                /\ Len(s.reconciled) <= Len(s.response.json)
                /\ \A k \in 1..Len(s.reconciled) :
                        s.response.json[k] = s.actions[k]

(***************************************************************************)
(* C6. Deduplication, last occurrence wins: the map the loop is driven     *)
(* from has exactly one entry for each DeviceID that some line carries     *)
(* together with a DeviceName, and the entry's name is that of the last    *)
(* such line; a body whose lines all parse raises no error; each entry is  *)
(* taken at most once, and every one of them in a batch answered 200; the  *)
(* store calls and the actions of a device use the entry's name only.      *)
(***************************************************************************)
\* line k carries both fields
Valid(lines, k) ==
    lines[k].json /\ lines[k].DeviceID # Missing /\ lines[k].DeviceName # Missing
\* the name on the last line that carries DeviceID d and a name
LastName(lines, d) ==
    LET last == CHOOSE k \in 1..Len(lines) :
                    /\ Valid(lines, k) /\ lines[k].DeviceID = d
                    /\ \A j \in (k + 1)..Len(lines) :
                            ~(Valid(lines, j) /\ lines[j].DeviceID = d)
    IN  lines[last].DeviceName
\* the name the map holds for DeviceID d
NameIn(m, d) == m[CHOOSE k \in 1..Len(m) : m[k].DeviceID = d].DeviceName
Range(f) == {f[k] : k \in 1..Len(f)}
\* the invocation has parsed its body and not yet entered the loop
JustParsed(s) == s.pc = "loop" /\ s.request # NoRequest

\* C6: one map entry per DeviceID, with the name of its last line; each
\* entry driven once; only the entry's name in store calls and actions
C6_LastOccurrenceWins ==
    \A w \in active :
        LET s == inv[w]
            m == s.uniqueDevices
            lines == s.request.body.lines
        IN  /\ JustParsed(s) =>
                /\ {m[j].DeviceID : j \in 1..Len(m)} =
                        {lines[k].DeviceID :
                            k \in {x \in 1..Len(lines) : Valid(lines, x)}}
                /\ \A j1, j2 \in 1..Len(m) :
                        m[j1].DeviceID = m[j2].DeviceID => j1 = j2
                /\ \A j \in 1..Len(m) :
                        m[j].DeviceName = LastName(lines, m[j].DeviceID)
            /\ (s.pc = "responded" /\ s.request.method = "POST") =>
                    (~s.request.body.gzip \/ lines = <<>>
                        \/ \E k \in 1..Len(lines) : ~lines[k].json)
            /\ s.skipped \cup Range(s.reconciled)
                    \subseteq {m[j].DeviceID : j \in 1..s.i}
            /\ s.skipped \cap Range(s.reconciled) = {}
            /\ \A k1, k2 \in 1..Len(s.reconciled) :
                    s.reconciled[k1] = s.reconciled[k2] => k1 = k2
            /\ (s.pc = "responded" /\ s.response.status = 200) =>
                    s.skipped \cup Range(s.reconciled) =
                        {m[j].DeviceID : j \in 1..Len(m)}
            /\ s.device # NoDevice => s.device.name = Cur(s).DeviceName
            /\ \A k \in 1..Len(s.calls) :
                    s.calls[k].name # Missing =>
                        s.calls[k].name = dnsName(Cur(s).DeviceName)
            /\ s.action # NoAction =>
                    s.action.name = dnsName(Cur(s).DeviceName)
            /\ Len(s.actions) = Len(s.reconciled)
            /\ \A k \in 1..Len(s.actions) :
                    s.actions[k].name = dnsName(NameIn(m, s.reconciled[k]))

\* a body with the same DeviceID under two names has been parsed
C6_Witness ==
    \E w \in active :
        LET s == inv[w]
            lines == s.request.body.lines
        IN  /\ JustParsed(s)
            /\ \E k1, k2 \in 1..Len(lines) :
                    /\ k1 < k2
                    /\ Valid(lines, k1) /\ Valid(lines, k2)
                    /\ lines[k1].DeviceID = lines[k2].DeviceID
                    /\ lines[k1].DeviceName # lines[k2].DeviceName

(***************************************************************************)
(* C7. Unresolved devices are inert: once the directory lookup of the      *)
(* current device has raised, reported no success or returned no IPv4      *)
(* address, the device is skipped with the control back at the loop: no    *)
(* run of manageDNSRecord was started and no store call issued for it;     *)
(* and a skipped device has no entry in the action log.                    *)
(***************************************************************************)
C7_UnresolvedInert ==
    \A w \in active :
        LET s == inv[w]
        IN  /\ (s.lookup # Missing
                    /\ (s.lookup # "ok" \/ dir[Cur(s).DeviceID] \notin Addrs)) =>
                /\ s.pc = "loop"
                /\ Cur(s).DeviceID \in s.skipped
                /\ s.calls = <<>> /\ s.device = NoDevice /\ s.zone0 = {}
            /\ s.skipped \cap Range(s.reconciled) = {}
            /\ Len(s.actions) = Len(s.reconciled)

\* a device has just been skipped and the batch has another device to go
C7_Witness ==
    \E w \in active :
        LET s == inv[w]
        IN  /\ s.pc = "loop" /\ s.lookup # Missing
            /\ Cur(s).DeviceID \in s.skipped
            /\ s.i < Len(s.uniqueDevices)

(***************************************************************************)
(* C8. Duplicate resolution: when the target hostname has a record with a  *)
(* different address and a record under another hostname holds the target  *)
(* address, a run whose store calls all succeed deletes such a record,     *)
(* updates the hostname's record to the target address and returns an      *)
(* updated action whose deleted_duplicate is the deleted record's          *)
(* hostname; afterwards that hostname has no record holding the address.   *)
(***************************************************************************)
\* some record under another hostname holds the target address
OtherHolds(s) ==
    \E r \in s.zone0 : r.name # Host(s) /\ r.content = s.device.ipv4

DuplicateResolved(s) ==
    \E d \in s.zone0, e \in ByName(s.zone0, Host(s)) :
        /\ d.name # Host(s) /\ d.content = s.device.ipv4
        /\ e.content # s.device.ipv4
        /\ Len(s.calls) = 4
        /\ s.calls[3] = Call("deleteDNSRecord", d.id, Missing, Missing, "ok")
        /\ s.calls[4] = Call("updateDNSRecord", e.id, Host(s),
                             s.device.ipv4, "ok")
        /\ s.action = [action |-> "updated", name |-> Host(s),
                       ipv4 |-> s.device.ipv4, deleted_duplicate |-> d.name]
        /\ d \notin zone
        /\ ~Holds(zone, d.name, s.device.ipv4)
        /\ Rec(e.id, Host(s), s.device.ipv4) \in zone

\* C8 as stated: the hostname has some record with another address, and
\* the run deletes the other hostname's record and updates the hostname's
C8_DuplicateResolution ==
    \A w \in active :
        LET s == inv[w]
        IN  (/\ Returned(s) /\ AllOk(s)
             /\ \E e \in ByName(s.zone0, Host(s)) : e.content # s.device.ipv4
             /\ OtherHolds(s))
                => DuplicateResolved(s)

\* C8 for a hostname whose only record has another address: the run
\* deletes the other hostname's record and updates the hostname's
C8_DuplicateResolutionOneRecord ==
    \A w \in active :
        LET s == inv[w]
        IN  (/\ Returned(s) /\ AllOk(s)
             /\ \E e \in s.zone0 :
                    ByName(s.zone0, Host(s)) = {e} /\ e.content # s.device.ipv4
             /\ OtherHolds(s))
                => DuplicateResolved(s)

\* a run has resolved a duplicate under another hostname
C8_Witness ==
    \E w \in active :
        LET s == inv[w]
        IN  /\ Returned(s) /\ AllOk(s)
            /\ Cardinality(ByName(s.zone0, Host(s))) = 1
            /\ OtherHolds(s)
            /\ s.action.action = "updated"
            /\ s.action.deleted_duplicate \in Hostnames \ {Host(s)}

(***************************************************************************)
(* C9. Missing-record creation: a run for a hostname that has no A record  *)
(* issues, after the by-name query, one createRecord call with the name    *)
(* deviceName + "." + domain suffix and the device's address, no update    *)
(* and no delete, and returns a created action with that name and address. *)
(***************************************************************************)
C9_MissingRecordCreation ==
    \A w \in active :
        LET s == inv[w]
            fqdn == s.device.name \o "." \o DOMAIN_SUFFIX
        IN  (s.calls # <<>> /\ ByName(s.zone0, fqdn) = {}) =>
                /\ Len(s.calls) <= 2
                /\ s.calls[1].op = "getDNSRecord"
                /\ Len(s.calls) = 2 =>
                        /\ s.calls[2].op = "createDNSRecord"
                        /\ s.calls[2].name = fqdn
                        /\ s.calls[2].content = s.device.ipv4
                /\ Returned(s) =>
                        /\ Len(s.calls) = 2
                        /\ s.action = [action |-> "created", name |-> fqdn,
                                       ipv4 |-> s.device.ipv4,
                                       deleted_duplicate |-> Absent]
                        /\ s.calls[2].outcome = "ok" =>
                                /\ Cardinality(zone) = Cardinality(s.zone0) + 1
                                /\ s.zone0 \subseteq zone
                                /\ Holds(zone, fqdn, s.device.ipv4)

\* a run for a hostname without a record has returned created
C9_Witness ==
    \E w \in active :
        LET s == inv[w]
        IN  /\ Returned(s) /\ AllOk(s)
            /\ ByName(s.zone0, Host(s)) = {}
            /\ s.zone0 # {}
            /\ s.action.action = "created"

(***************************************************************************)
(* C10. Unchanged-address stability: when the hostname's existing record   *)
(* (the one the by-name query answered) already holds the device's         *)
(* address, the run issues no create, update or delete, leaves every       *)
(* record of the zone as it was, and returns a no-change action.           *)
(***************************************************************************)
C10_UnchangedAddressStable ==
    \A w \in active :
        LET s == inv[w]
        IN  (/\ s.existingRecord \in ByName(s.zone0, Host(s))
             /\ s.existingRecord.content = s.device.ipv4) =>
                /\ Returned(s)
                /\ Ops(s) = <<"getDNSRecord">>
                /\ zone = s.zone0
                /\ s.action = [action |-> "no-change", name |-> Host(s),
                               ipv4 |-> s.device.ipv4,
                               deleted_duplicate |-> Absent]

\* a run has met a record that already held the address, in a zone with
\* other records
C10_Witness ==
    \E w \in active :
        LET s == inv[w]
        IN  /\ Returned(s)
            /\ s.existingRecord \in s.zone0
            /\ s.existingRecord.content = s.device.ipv4
            /\ Cardinality(s.zone0) > 1

(***************************************************************************)
(* C11. Decode errors are fatal before any side effect: a POST whose body  *)
(* does not decompress, or has a line that is not JSON, is answered 500 in *)
(* the step that reads it: no directory lookup and no store call was made, *)
(* no device was taken (not even one of a well-formed line before the      *)
(* malformed one) and the zone is as it was.                               *)
(***************************************************************************)
\* the body does not decompress or has a line that is not JSON
Malformed(body) ==
    ~body.gzip \/ \E k \in 1..Len(body.lines) : ~body.lines[k].json

\* C11: the step that receives a malformed body answers 500 with no
\* lookup, no store call, no device taken and the zone unchanged
C11_DecodeErrorsFatal ==
    [][\A w \in active :
        (/\ inv[w].pc = "idle"
         /\ inv'[w].request.method = "POST"
         /\ Malformed(inv'[w].request.body)) =>
            /\ inv'[w].pc = "responded"
            /\ inv'[w].response =
                    TextResponse(500, "Error processing data")
            /\ inv'[w].i = 0
            /\ inv'[w].lookup = Missing
            /\ inv'[w].calls = <<>>
            /\ inv'[w].skipped = {} /\ inv'[w].reconciled = <<>>
            /\ inv'[w].actions = <<>>
            /\ zone' = zone]_vars

\* a body with a well-formed line before a malformed one was answered 500
C11_Witness ==
    \E w \in active :
        LET s == inv[w]
            lines == s.request.body.lines
        IN  /\ s.pc = "responded" /\ s.response.status = 500
            /\ s.request.method = "POST"
            /\ Len(lines) = 2
            /\ Valid(lines, 1) /\ ~lines[2].json

(***************************************************************************)
(* C12. Response status: an invocation has a response exactly when it has  *)
(* ended, and that response is never replaced.  A request that is not a    *)
(* POST is answered 405 with no lookup and no store call.  A POST whose    *)
(* body decodes and parses and none of whose store calls raises is         *)
(* answered 200 with the JSON array of the actions, after every device     *)
(* was taken.  A POST whose decode or parse fails, or one of whose store   *)
(* calls raises, is answered 500 with a plain text and no action array.    *)
(***************************************************************************)
\* the invocation has touched neither the directory nor the store
NothingCalled(s) ==
    /\ s.i = 0 /\ s.lookup = Missing /\ s.calls = <<>>
    /\ s.skipped = {} /\ s.reconciled = <<>> /\ s.actions = <<>>

\* the request of a responded invocation was refused for its method
Refused(s) == s.request.method \notin {"POST", Missing}
\* the decode or the parse of the responded invocation's body raised
DecodeRaised(s) ==
    /\ s.request.method = "POST"
    /\ (Malformed(s.request.body) \/ s.request.body.lines = <<>>)

\* C12: one response per invocation, 405, 200 or 500 as the request went
C12_ResponseStatus ==
    \A w \in active :
        LET s == inv[w]
        IN  /\ s.pc # "responded" => s.response = NoResponse
            /\ s.pc = "responded" =>
                /\ s.response.status \in {200, 405, 500}
                /\ Refused(s) =>
                    /\ s.response =
                          TextResponse(405, "Only POST requests are allowed")
                    /\ NothingCalled(s)
                /\ (~Refused(s) /\ ~DecodeRaised(s) /\ ~RunThrew(s)) =>
                    /\ s.response = JsonResponse(s.actions)
                    /\ s.response.type = "application/json"
                    /\ s.i = Len(s.uniqueDevices)
                    /\ Len(s.actions) = Len(s.reconciled)
                /\ (DecodeRaised(s) \/ RunThrew(s)) =>
                    /\ s.response = TextResponse(500, "Error processing data")
                    /\ s.response.type = "text/plain"
                    /\ s.response.json = <<>>
                /\ s.response.status = 405 => Refused(s)
                /\ s.response.status = 500 =>
                        (DecodeRaised(s) \/ RunThrew(s))

\* a batch was answered 500 after the run of its second device raised
C12_Witness ==
    \E w \in active :
        LET s == inv[w]
        IN  /\ s.pc = "responded" /\ s.response.status = 500
            /\ RunThrew(s)
            /\ Len(s.actions) = 1

(***************************************************************************)
(* C13. One action per resolved device: the action array of a 200 response *)
(* has exactly one action for each DeviceID of the batch whose directory   *)
(* lookup yielded an address, with the device's hostname and address, and  *)
(* none for a device that was skipped; the kind of an action is created,   *)
(* updated or no-change; an action has a deleted_duplicate field only when *)
(* it is an updated action whose run deleted the record of that name.      *)
(***************************************************************************)
Kinds == {"created", "updated", "no-change"}

\* the 200 response has one action for each resolved device and no other
ActionsMatchResolved(s) ==
    LET m == s.uniqueDevices
        log == s.response.json
    IN  /\ (s.lookup = "ok" /\ dir[Cur(s).DeviceID] \in Addrs) =>
                Cur(s).DeviceID \notin s.skipped
        /\ (s.pc = "responded" /\ s.response.status = 200) =>
            /\ Len(log) = Len(s.reconciled)
            /\ \A k1, k2 \in 1..Len(s.reconciled) :
                    s.reconciled[k1] = s.reconciled[k2] => k1 = k2
            /\ Range(s.reconciled) \cup s.skipped =
                    {m[j].DeviceID : j \in 1..Len(m)}
            /\ Range(s.reconciled) \cap s.skipped = {}
            /\ \A k \in 1..Len(log) :
                    /\ dir[s.reconciled[k]] \in Addrs
                    /\ log[k].ipv4 = dir[s.reconciled[k]]
                    /\ log[k].name = dnsName(NameIn(m, s.reconciled[k]))
                    /\ log[k].action \in Kinds
                    /\ log[k].deleted_duplicate # Absent =>
                            log[k].action = "updated"

\* the action a run returns names a deleted duplicate only when the run
\* deleted a record of that name
DeletedDuplicateTruthful(s) ==
    (Returned(s) /\ s.action.deleted_duplicate # Absent) =>
        /\ s.action.action = "updated"
        /\ \E d \in s.zone0, k \in 1..Len(s.calls) :
                /\ d.name = s.action.deleted_duplicate
                /\ s.calls[k] =
                      Call("deleteDNSRecord", d.id, Missing, Missing, "ok")
                /\ d \notin zone

\* C13: one action per resolved device in a 200 response, of a known kind,
\* naming a deleted duplicate only when one was deleted
C13_OneActionPerResolvedDevice ==
    \A w \in active :
        ActionsMatchResolved(inv[w]) /\ DeletedDuplicateTruthful(inv[w])

(***************************************************************************)
(* C14. Delete before update, never double-claimed: in the update path     *)
(* with a duplicate, the update is issued only after the delete of the     *)
(* duplicate was issued and has completed.  Consequently, in a run that    *)
(* started from a zone with at most one record per address, the target     *)
(* address is held by at most one record in every state of the path before *)
(* the update has been applied, the state a run leaves when it stops       *)
(* between the two calls included; and still is after the update when the  *)
(* delete succeeded.                                                       *)
(***************************************************************************)
\* the run is in the update path and has found a duplicate
HasDuplicate(s) == s.duplicateRecord # NoRecord
\* the update of the current run has been applied by the store
UpdateApplied(s) ==
    \E k \in 1..Len(s.calls) :
        s.calls[k].op = "updateDNSRecord" /\ s.calls[k].outcome = "ok"
\* the delete of the current run has been applied by the store
DeleteApplied(s) ==
    \E k \in 1..Len(s.calls) :
        s.calls[k].op = "deleteDNSRecord" /\ s.calls[k].outcome = "ok"

\* C14: the delete completes before the update is issued, and the target
\* address has at most one holder until the update is applied
C14_DeleteBeforeUpdate ==
    \A w \in active :
        LET s == inv[w]
        IN  HasDuplicate(s) =>
                /\ s.pc = "deleteDNSRecord" =>
                        \A k \in 1..Len(s.calls) :
                            s.calls[k].op \notin Mutations
                /\ \A k \in 1..Len(s.calls) :
                        s.calls[k].op = "updateDNSRecord" =>
                            /\ k = 4
                            /\ s.calls[3].op = "deleteDNSRecord"
                            /\ s.calls[3].id = s.duplicateRecord.id
                            /\ s.calls[3].outcome # "throw"
                /\ (OneRecordPerAddress(s.zone0)
                        /\ (~UpdateApplied(s) \/ DeleteApplied(s))) =>
                        Cardinality(ByContent(zone, s.device.ipv4)) <= 1

\* a run stopped between the delete, which succeeded, and the update
C14_Witness ==
    \E w \in active :
        LET s == inv[w]
        IN  /\ HasDuplicate(s) /\ OneRecordPerAddress(s.zone0)
            /\ s.pc = "responded" /\ RunThrew(s)
            /\ Ops(s) = <<"getDNSRecord", "findDuplicateDNSRecord",
                          "deleteDNSRecord", "updateDNSRecord">>
            /\ s.calls[3].outcome = "ok"
            /\ ByContent(zone, s.device.ipv4) = {}

(***************************************************************************)
(* C15. A non-success store response aborts the device: a store call that  *)
(* was answered with non-success is the last call of its run, and the run  *)
(* returns no action; in particular no createDNSRecord follows a by-name   *)
(* query answered with non-success, and a created or updated action is     *)
(* returned only by a run whose create or update succeeded.                *)
(***************************************************************************)
C15_NonSuccessAborts ==
    \A w \in active :
        LET s == inv[w]
            n == Len(s.calls)
        IN  /\ \A k \in 1..n :
                    s.calls[k].outcome = "nonsuccess" =>
                        /\ k = n
                        /\ s.pc \notin {"createDNSRecord",
                                        "findDuplicateDNSRecord",
                                        "deleteDNSRecord", "updateDNSRecord"}
                        /\ ~Returned(s)
            /\ (Returned(s) /\ s.action.action = "created") =>
                    s.calls[n] = Call("createDNSRecord", 0, Host(s),
                                      s.device.ipv4, "ok")
            /\ (Returned(s) /\ s.action.action = "updated") =>
                    s.calls[n] = Call("updateDNSRecord", s.existingRecord.id,
                                      Host(s), s.device.ipv4, "ok")

(***************************************************************************)
(* C16. No rollback on partial failure: when, in the update path with a    *)
(* duplicate, the delete has succeeded and the update that follows fails,  *)
(* the run issues no further store call: the zone is left as it was at the *)
(* start of the run less the duplicate, the hostname's record still        *)
(* holding its old address.                                                *)
(***************************************************************************)
\* the delete of the duplicate succeeded and the update after it failed
UpdateFailedAfterDelete(s) ==
    /\ HasDuplicate(s)
    /\ Len(s.calls) >= 4
    /\ s.calls[3].op = "deleteDNSRecord" /\ s.calls[3].outcome = "ok"
    /\ s.calls[4].op = "updateDNSRecord" /\ s.calls[4].outcome # "ok"

C16_NoRollback ==
    \A w \in active :
        LET s == inv[w]
        IN  UpdateFailedAfterDelete(s) =>
                /\ Len(s.calls) = 4
                /\ s.pc \in {"pushAction", "responded"}
                /\ zone = StoreDelete(s.zone0, s.duplicateRecord.id)
                /\ s.duplicateRecord \in s.zone0
                /\ s.duplicateRecord \notin zone
                /\ s.existingRecord \in zone
                /\ s.existingRecord.name = Host(s)
                /\ s.existingRecord.content # s.device.ipv4

\* a run whose update raised after its delete had succeeded
C16_Witness ==
    \E w \in active :
        LET s == inv[w]
        IN  /\ UpdateFailedAfterDelete(s)
            /\ s.calls[4].outcome = "throw"
            /\ s.pc = "responded"
            /\ Cardinality(zone) = 1

(***************************************************************************)
(* C17. Order independence between devices: the zone a batch leaves, and   *)
(* the actions it reports, do not depend on the order in which its devices *)
(* are reconciled, when every store call succeeds.                         *)
(***************************************************************************)
\* the (hostname, address) pairs of a zone, and of the actions of a log
Pairs(z) == {<<r.name, r.content>> : r \in z}
Reported(actions) == {<<a.name, a.ipv4>> : a \in Range(actions)}
\* the orders in which the devices of map m can be taken
Orders(m) ==
    {p \in [1..Len(m) -> Range(m)] : Range(p) = Range(m)}
\* the devices of the map that the directory resolves
Resolved(m) == {e \in Range(m) : dir[e.DeviceID] \in Addrs}
\* no two resolved devices of the map share a name or an address
Unrelated(m) ==
    \A e1, e2 \in Resolved(m) :
        e1 # e2 => /\ e1.DeviceName # e2.DeviceName
                   /\ dir[e1.DeviceID] # dir[e2.DeviceID]

\* the run that has returned is one of those the function gives
RunIsFunction(s) ==
    (Returned(s) /\ AllOk(s)) =>
        [zone |-> zone, action |-> s.action]
            \in manageDNSRecord(s.zone0, s.device)

OverlapRequests ==
    {[method |-> "POST", body |-> [gzip |-> TRUE, lines |-> <<e>>]] :
        e \in {Entry(id, name) : id \in DeviceIDs, name \in DeviceNames}}

\* the answer of a store that never fails by itself to the mutation that
\* invocation w is about to issue
StoreAnswer(w) ==
    LET s == inv[w]
        name == dnsName(s.device.name)
        accepted ==
            CASE s.pc = "createDNSRecord" -> CanCreate(name, s.device.ipv4)
              [] s.pc = "deleteDNSRecord" -> CanDelete(s.duplicateRecord.id)
              [] s.pc = "updateDNSRecord" ->
                    CanUpdate(UpdateTarget(s.existingRecord,
                                           s.duplicateRecord),
                              name, s.device.ipv4)
              [] OTHER -> TRUE
    IN  IF accepted THEN "ok" ELSE "nonsuccess"

InitOverlap ==
    /\ zone \in {z \in InitZones :
                    OneRecordPerHostname(z) /\ OneRecordPerAddress(z)}
    /\ dir \in [DeviceIDs -> Addrs \cup {Missing}]
    /\ active = {1, 2}
    /\ inv = [w \in active |-> Idle]
    /\ lastRun = NoRun

NextOverlap ==
    \/ \E w \in active, request \in OverlapRequests : Fetch(w, request)
    \/ \E w \in active : Loop(w)
    \/ \E w \in active : GetDeviceDetails(w, "ok")
    \/ \E w \in active, r \in zone \cup {NoRecord} : GetDNSRecord(w, "ok", r)
    \/ \E w \in active : CreateDNSRecord(w, StoreAnswer(w))
    \/ \E w \in active, r \in zone \cup {NoRecord} :
            FindDuplicateDNSRecord(w, "ok", r)
    \/ \E w \in active : DeleteDNSRecord(w, StoreAnswer(w))
    \/ \E w \in active : UpdateDNSRecord(w, StoreAnswer(w))
    \/ \E w \in active : PushAction(w)

SpecOverlap == InitOverlap /\ [][NextOverlap]_vars

(***************************************************************************)
(* C18. Safety under overlapping invocations: when two invocations run at  *)
(* the same time on a zone that has at most one A record per hostname and  *)
(* at most one record per address, with their store calls interleaved in   *)
(* any order, the zone has at most one A record per hostname and at most   *)
(* one record per address whenever no run is in progress.                  *)
(***************************************************************************)
\* no invocation is inside a run of manageDNSRecord
Quiescent == \A w \in active : inv[w].device = NoDevice

C18_OverlapSafety ==
    Quiescent => OneRecordPerHostname(zone) /\ OneRecordPerAddress(zone)

(***************************************************************************)
(* C19. Batch replay is a no-op: when a batch whose store calls all        *)
(* succeeded is sent again, with the same directory answers and no other   *)
(* change to the zone, the second pass returns only no-change actions and  *)
(* leaves the zone as the first pass left it (no create, update or         *)
(* delete).                                                                *)
(***************************************************************************)
\* the pass `again` over the zone that the pass `first` left changed nothing
ReplayIsNoOp(first, again) ==
    /\ again.zone = first.zone
    /\ Len(again.actions) = Len(first.actions)
    /\ \A k \in 1..Len(again.actions) :
            /\ again.actions[k].action = "no-change"
            /\ again.actions[k].name = first.actions[k].name
            /\ again.actions[k].ipv4 = first.actions[k].ipv4

\* C19 as stated: any zone and any batch, two devices with the same
\* address included
C19_BatchReplayNoOp ==
    \A w \in active :
        LET s == inv[w]
            m == s.uniqueDevices
        IN  JustParsed(s) =>
                \A first \in Reconcile(zone, m) :
                    \A again \in Reconcile(first.zone, m) :
                        ReplayIsNoOp(first, again)

\* C19 for a batch whose devices share neither name nor address, sent to a
\* zone with at most one record per hostname
C19_BatchReplayNoOpUnrelated ==
    \A w \in active :
        LET s == inv[w]
            m == s.uniqueDevices
        IN  (JustParsed(s) /\ Unrelated(m) /\ OneRecordPerHostname(zone)) =>
                \A first \in Reconcile(zone, m) :
                    \A again \in Reconcile(first.zone, m) :
                        ReplayIsNoOp(first, again)

\* a batch of two unrelated devices whose first pass updates one record,
\* deleting a duplicate, and creates the other
C19_Witness ==
    \E w \in active :
        LET s == inv[w]
            m == s.uniqueDevices
        IN  /\ JustParsed(s) /\ Unrelated(m) /\ OneRecordPerHostname(zone)
            /\ \E first \in Reconcile(zone, m) :
                    /\ Len(first.actions) = 2
                    /\ first.actions[1].action = "updated"
                    /\ first.actions[1].deleted_duplicate # Absent
                    /\ first.actions[2].action = "created"
                    /\ Reconcile(first.zone, m) # {}

(***************************************************************************)
(* C20. The engine never deletes the record it is about to update: in a    *)
(* run that issues a delete, the id deleted differs from the id passed to  *)
(* the update that follows; and the by-address query and the delete are    *)
(* issued only after the by-name query answered with a record of the       *)
(* hostname whose address differs from the target, never in the create or  *)
(* the no-change path.                                                     *)
(***************************************************************************)
C20_NeverDeletesUpdated ==
    \A w \in active :
        LET s == inv[w]
            n == Len(s.calls)
        IN  /\ \A k \in 1..n :
                s.calls[k].op \in {"findDuplicateDNSRecord",
                                   "deleteDNSRecord"} =>
                    /\ k > 1
                    /\ s.calls[1].op = "getDNSRecord"
                    /\ s.calls[1].outcome = "ok"
                    /\ s.existingRecord \in ByName(s.zone0, Host(s))
                    /\ s.existingRecord.content # s.device.ipv4
                    /\ \A j \in 1..n : s.calls[j].op # "createDNSRecord"
                    /\ s.action.action \notin {"created", "no-change"}
            /\ \A k \in 1..n :
                s.calls[k].op = "deleteDNSRecord" =>
                    /\ s.calls[k - 1].op = "findDuplicateDNSRecord"
                    /\ s.calls[k].id = s.duplicateRecord.id
                    /\ s.calls[k].id # s.existingRecord.id
                    /\ s.calls[k].id # UpdateTarget(s.existingRecord,
                                                    s.duplicateRecord)
                    /\ \A j \in (k + 1)..n :
                            /\ s.calls[j].op = "updateDNSRecord"
                            /\ s.calls[j].id # s.calls[k].id
            /\ s.pc \in {"findDuplicateDNSRecord", "deleteDNSRecord"} =>
                    /\ s.existingRecord # NoRecord
                    /\ s.existingRecord.content # s.device.ipv4

\* a run has deleted a duplicate and then updated the hostname's record
C20_Witness ==
    \E w \in active :
        LET s == inv[w]
        IN  /\ Returned(s)
            /\ Len(s.calls) = 4
            /\ s.calls[3].op = "deleteDNSRecord"
            /\ s.calls[4].op = "updateDNSRecord"
            /\ s.calls[4].outcome = "ok"
            /\ s.calls[3].id # s.calls[4].id

====
